---- MODULE Spec2Model ----
(***************************************************************************)
(* The two incremental importers of nba-player-stats-clean:                *)
(*   src/import_player_stats.py            (PlayerStatistics.csv)          *)
(*   src/.github/workflows/import_team_stats.py   (TeamStatistics.csv)     *)
(* Each run downloads a CSV, validates its header, filters the rows to a   *)
(* lookback window, routes them to tabs of a Google spreadsheet, reads the *)
(* tab's key columns, drops the candidates whose key is already there and  *)
(* appends the rest.                                                       *)
(*                                                                         *)
(* Representation.  A Python string is a sequence of tokens: the token     *)
(* " " is one whitespace character, every other token is a run of          *)
(* non-whitespace characters.  "" is << >>, " 100" is <<" ", "100">>.      *)
(* A spreadsheet is a function from the titles of its tabs to the rows of  *)
(* each tab; a row is the sequence of its cells (strings); an empty cell   *)
(* is "".  Of each pipeline's columns the model keeps columns A..E, which  *)
(* hold both key parts and the date in both pipelines.                     *)
(***************************************************************************)
EXTENDS Integers, Sequences, FiniteSets, TLC

\* The most CSV data rows a source file holds.
MaxRows == 2

\* The most runs (scheduled invocations of main) in one behaviour.
MaxRuns == 2

Procs == {1, 2}

Range(s) == {s[i] : i \in DOMAIN s}

----------------------------------------------------------------------------
(* Strings *)

Str(tok) == <<tok>>

EmptyStr == << >>

IsSpace(c) == c = " "

RECURSIVE lstrip(_)
lstrip(s) ==
    IF s # << >> /\ IsSpace(Head(s)) THEN lstrip(Tail(s)) ELSE s

RECURSIVE rstrip(_)
rstrip(s) ==
    IF s # << >> /\ IsSpace(s[Len(s)])
    THEN rstrip(SubSeq(s, 1, Len(s) - 1))
    ELSE s

\* str.strip()
strip(s) == rstrip(lstrip(s))

\* f"{a}|{b}"
KeyStr(a, b) == a \o <<"|">> \o b

----------------------------------------------------------------------------
(* Configuration *)

TARGET_TAB == <<"2026">>

ALLOWED_SEASON_END_YEARS == {2022, 2023, 2024, 2025, 2026}

\* Columns A..E of the team schema.
TEAM_EXPECTED_HEADERS ==
    <<Str("gameId"), Str("gameDateTimeEst"), Str("teamCity"),
      Str("teamName"), Str("teamId")>>

\* Columns A..E of the player schema.
PLAYER_EXPECTED_HEADERS ==
    <<Str("firstName"), Str("lastName"), Str("personId"),
      Str("gameId"), Str("gameDateTimeEst")>>

EXPECTED_HEADERS(pl) ==
    IF pl = "team" THEN TEAM_EXPECTED_HEADERS ELSE PLAYER_EXPECTED_HEADERS

----------------------------------------------------------------------------
(* Dates.  A datetime is [year, month, day, hour] at the fixed offset      *)
(* UTC-5; NoDate is parse_date's None.  The source strings of the model    *)
(* are written in two of parse_date's seven formats, the first and the     *)
(* last of its list; no string of the model matches one of the others.     *)

NoDate == [year |-> 0, month |-> 0, day |-> 0, hour |-> 0]

DT(y, m, d, h) == [year |-> y, month |-> m, day |-> d, hour |-> h]

YearNum ==
    ("2021" :> 2021) @@ ("2024" :> 2024) @@ ("2025" :> 2025) @@ ("2026" :> 2026)

MonthNum ==
    ("03" :> 3) @@ ("06" :> 6) @@ ("07" :> 7) @@ ("08" :> 8) @@
    ("11" :> 11) @@ ("12" :> 12)

DayNum == ("01" :> 1) @@ ("10" :> 10) @@ ("15" :> 15) @@ ("25" :> 25)

HourNum == ("00" :> 0) @@ ("12" :> 12) @@ ("19" :> 19)

\* The date part "%Y-%m-%d" at the head of t.
IsDatePart(t) ==
    /\ Len(t) >= 5
    /\ t[1] \in DOMAIN YearNum
    /\ t[2] = "-"
    /\ t[3] \in DOMAIN MonthNum
    /\ t[4] = "-"
    /\ t[5] \in DOMAIN DayNum

\* datetime.strptime(t, fmt): the parsed datetime, or NoDate for ValueError.
strptime(t, fmt) ==
    IF fmt = "%Y-%m-%dT%H:%M:%S"
    THEN IF /\ Len(t) = 8
            /\ IsDatePart(t)
            /\ t[6] = "T"
            /\ t[7] \in DOMAIN HourNum
            /\ t[8] = ":00:00"
         THEN DT(YearNum[t[1]], MonthNum[t[3]], DayNum[t[5]], HourNum[t[7]])
         ELSE NoDate
    ELSE IF fmt = "%Y-%m-%d"
    THEN IF Len(t) = 5 /\ IsDatePart(t)
         THEN DT(YearNum[t[1]], MonthNum[t[3]], DayNum[t[5]], 0)
         ELSE NoDate
    ELSE NoDate

FORMATS == <<"%Y-%m-%dT%H:%M:%S", "%Y-%m-%d">>

RECURSIVE try_formats(_, _)
try_formats(s, i) ==
    IF i > Len(FORMATS) THEN NoDate
    ELSE LET dt == strptime(strip(s), FORMATS[i])
         IN  IF dt # NoDate THEN dt ELSE try_formats(s, i + 1)

parse_date(s) == IF s = EmptyStr THEN NoDate ELSE try_formats(s, 1)

\* dt <= cutoff: the comparison with the boundary on the wrong side.
Before_or_at(dt, cutoff) ==
    \/ dt.year < cutoff.year
    \/ /\ dt.year = cutoff.year
       /\ \/ dt.month < cutoff.month
          \/ /\ dt.month = cutoff.month
             /\ \/ dt.day < cutoff.day
                \/ dt.day = cutoff.day /\ dt.hour <= cutoff.hour

\* dt < cutoff, both at UTC-5.
Before(dt, cutoff) ==
    \/ dt.year < cutoff.year
    \/ /\ dt.year = cutoff.year
       /\ \/ dt.month < cutoff.month
          \/ /\ dt.month = cutoff.month
             /\ \/ dt.day < cutoff.day
                \/ dt.day = cutoff.day /\ dt.hour < cutoff.hour

\* The season mapping with July on the wrong side.
season_end_year_from_august(dt) == IF dt.month > 7 THEN dt.year + 1 ELSE dt.year

season_end_year(dt) == IF dt.month >= 7 THEN dt.year + 1 ELSE dt.year

is_current_season(dt) ==
    \/ dt.year = 2025 /\ dt.month >= 7
    \/ dt.year = 2026 /\ dt.month <= 6

\* str(yr)
YearStr(yr) ==
    CASE yr = 2021 -> "2021" [] yr = 2022 -> "2022" [] yr = 2023 -> "2023"
      [] yr = 2024 -> "2024" [] yr = 2025 -> "2025" [] yr = 2026 -> "2026"
      [] yr = 2027 -> "2027" [] OTHER -> "yyyy"

\* f"players-{yr}"
PlayerTab(yr) == <<"players-", YearStr(yr)>>

----------------------------------------------------------------------------
(* The source CSV.  csv.DictReader maps each data row to a dict keyed by   *)
(* the header names exactly as the file spells them.                       *)

IdColumn(pl) == IF pl = "team" THEN Str("teamId") ELSE Str("personId")

\* One data row of TeamStatistics.csv, columns A..E.
TeamRow(id, gid, date) == <<gid, date, Str("Boston"), Str("Celtics"), id>>

\* One data row of PlayerStatistics.csv, columns A..E.
PlayerRow(id, gid, date) == <<Str("Al"), Str("Horford"), id, gid, date>>

SourceRow(pl, id, gid, date) ==
    IF pl = "team" THEN TeamRow(id, gid, date) ELSE PlayerRow(id, gid, date)

\* The dict DictReader yields for the data row vals under header fieldnames.
DictRow(fieldnames, vals) ==
    [h \in Range(fieldnames) |->
        vals[CHOOSE i \in DOMAIN fieldnames : fieldnames[i] = h]]

\* row.get(h, "")
get(row, h) == IF h \in DOMAIN row THEN row[h] ELSE EmptyStr

\* A validation that looks at no column.
missing_unchecked(pl, fieldnames) == {}

\* missing = [h for h in EXPECTED_HEADERS if h not in csv_headers]
missing(pl, fieldnames) ==
    LET csv_headers == {strip(h) : h \in Range(fieldnames)}
    IN  {h \in Range(EXPECTED_HEADERS(pl)) : h \notin csv_headers}

\* The team pipeline's read loop over rows i.. of the file.
RECURSIVE team_recent_rows(_, _, _, _)
team_recent_rows(fieldnames, rows, cutoff, i) ==
    IF i > Len(rows) THEN << >>
    ELSE LET row    == DictRow(fieldnames, rows[i])
             dt_str == strip(get(row, Str("gameDateTimeEst")))
             dt     == parse_date(dt_str)
             rest   == team_recent_rows(fieldnames, rows, cutoff, i + 1)
         IN  IF dt = NoDate THEN rest
             ELSE IF Before(dt, cutoff) THEN rest
             ELSE IF ~is_current_season(dt) THEN rest
             ELSE <<row>> \o rest

\* The player pipeline's read loop over rows i.. of the file.
RECURSIVE player_recent_rows(_, _, _, _)
player_recent_rows(fieldnames, rows, cutoff, i) ==
    IF i > Len(rows) THEN << >>
    ELSE LET row    == DictRow(fieldnames, rows[i])
             dt_str == strip(get(row, Str("gameDateTimeEst")))
             dt     == parse_date(dt_str)
             rest   == player_recent_rows(fieldnames, rows, cutoff, i + 1)
         IN  IF dt = NoDate THEN rest
             ELSE IF Before(dt, cutoff) THEN rest
             ELSE <<row>> \o rest

\* by_tab[tab].append(row), by_tab an insertion-ordered dict: a sequence of
\* [tab, rows] in the order the tabs were first seen.
AddToTab(by_tab, tab, row) ==
    IF \E k \in DOMAIN by_tab : by_tab[k].tab = tab
    THEN [k \in DOMAIN by_tab |->
            IF by_tab[k].tab = tab
            THEN [by_tab[k] EXCEPT !.rows = Append(@, row)]
            ELSE by_tab[k]]
    ELSE Append(by_tab, [tab |-> tab, rows |-> <<row>>])

\* The player pipeline's bucketing loop over recent_rows[i..].
RECURSIVE bucket_rows(_, _, _)
bucket_rows(recent, i, by_tab) ==
    IF i > Len(recent) THEN by_tab
    ELSE LET row == recent[i]
             dt  == parse_date(row[Str("gameDateTimeEst")])
             yr  == season_end_year(dt)
         IN  IF yr \notin ALLOWED_SEASON_END_YEARS
             THEN bucket_rows(recent, i + 1, by_tab)
             ELSE bucket_rows(recent, i + 1, AddToTab(by_tab, PlayerTab(yr), row))

\* key = f"{pid}|{gid}" of the stripped fields of a candidate row.
candidate_key(pl, row) ==
    KeyStr(strip(get(row, IdColumn(pl))), strip(get(row, Str("gameId"))))

\* [row.get(h, "") for h in EXPECTED_HEADERS]
output_row(pl, row) ==
    [j \in DOMAIN EXPECTED_HEADERS(pl) |-> get(row, EXPECTED_HEADERS(pl)[j])]

\* The dedup loop without its existing_keys.add(key).
add_key_forgotten(existing_keys, key) == existing_keys

\* existing_keys.add(key)
add_key(existing_keys, key) == existing_keys \cup {key}

\* The dedup loop over the candidates rows[i..]: the rows to append.
RECURSIVE dedup(_, _, _, _)
dedup(pl, rows, i, existing_keys) ==
    IF i > Len(rows) THEN << >>
    ELSE LET key == candidate_key(pl, rows[i])
         IN  IF key \in existing_keys
             THEN dedup(pl, rows, i + 1, existing_keys)
             ELSE <<output_row(pl, rows[i])>>
                    \o dedup(pl, rows, i + 1, add_key(existing_keys, key))

----------------------------------------------------------------------------
(* The Sheets API as the importers use it.                                 *)

\* A row of a values.get result: trailing empty cells are left out.
RECURSIVE TrimCells(_)
TrimCells(cells) ==
    IF cells # << >> /\ cells[Len(cells)] = EmptyStr
    THEN TrimCells(SubSeq(cells, 1, Len(cells) - 1))
    ELSE cells

\* A values.get result: trailing empty rows are left out.
RECURSIVE TrimRows(_)
TrimRows(rows) ==
    IF rows # << >> /\ rows[Len(rows)] = << >>
    THEN TrimRows(SubSeq(rows, 1, Len(rows) - 1))
    ELSE rows

\* spreadsheets().values().get(range=f"'{tab}'!<cols>").execute().get("values", [])
\* on the rows of an existing tab; cols are the column numbers of the range.
values_get(tabRows, cols) ==
    TrimRows([i \in DOMAIN tabRows |->
                TrimCells([j \in DOMAIN cols |-> tabRows[i][cols[j]]])])

\* The player pipeline's key set from the C:D rows.
player_existing_keys(rows) ==
    {KeyStr(rows[i][1], rows[i][2]) :
        i \in {k \in 2..Len(rows) : Len(rows[k]) >= 2}}

Min(a, b) == IF a < b THEN a ELSE b

\* The team pipeline's key set from the A:A and E:E rows.
team_existing_keys(rows_a, rows_e) ==
    LET game_id(i) == IF rows_a[i] # << >> THEN rows_a[i][1] ELSE EmptyStr
        team_id(i) == IF rows_e[i] # << >> THEN rows_e[i][1] ELSE EmptyStr
    IN  {KeyStr(team_id(i), game_id(i)) :
            i \in {k \in 2..Min(Len(rows_a), Len(rows_e)) :
                      game_id(k) # EmptyStr /\ team_id(k) # EmptyStr}}

\* ensure_tab_exists without its membership test.
needs_create_always(existing_tabs, tab_name) == TRUE

\* tab_name not in existing_tabs
needs_create(existing_tabs, tab_name) == tab_name \notin existing_tabs

\* values().update(range=f"'{tab}'!A1", body={"values": [EXPECTED_HEADERS]})
write_row1(tabRows, header) ==
    IF tabRows = << >> THEN <<header>> ELSE [tabRows EXCEPT ![1] = header]

----------------------------------------------------------------------------
(* Inputs *)

D_2025_08_01 == <<"2025", "-", "08", "-", "01">>
D_2025_12_25_19h == <<" ", "2025", "-", "12", "-", "25", "T", "19", ":00:00">>
D_2025_06_01 == <<"2025", "-", "06", "-", "01">>
D_2026_07_01 == <<"2026", "-", "07", "-", "01">>
D_2024_11_15 == <<"2024", "-", "11", "-", "15">>
D_garbage == <<"not-a-date">>

\* The data rows a TeamStatistics.csv of the model is made of.
TeamCatalog ==
    { TeamRow(Str("100"), Str("1"), D_2025_08_01),
      TeamRow(Str("100"), Str("2"), D_2025_12_25_19h),
      TeamRow(<<" ", "100">>, Str("1"), D_2025_12_25_19h),
      TeamRow(Str("100"), Str("2"), D_2025_06_01),
      TeamRow(Str("100"), Str("2"), D_2026_07_01) }

\* The data rows a PlayerStatistics.csv of the model is made of.
PlayerCatalog ==
    { PlayerRow(Str("100"), Str("1"), D_2025_08_01),
      PlayerRow(<<" ", "100">>, Str("1"), D_2025_12_25_19h),
      PlayerRow(Str("100"), Str("2"), D_2024_11_15),
      PlayerRow(Str("100"), Str("2"), D_2026_07_01),
      PlayerRow(Str("100"), Str("2"), D_garbage) }

Catalog(pl) == IF pl = "team" THEN TeamCatalog ELSE PlayerCatalog

SeqsUpTo(S, n) == UNION {[1..k -> S] : k \in 0..n}

\* The header lines a source file of the model has: the expected one, one
\* with the gameId column renamed, one with the id column's name padded.
HeaderVariants(pl) ==
    LET h == EXPECTED_HEADERS(pl)
    IN  { h,
          [i \in DOMAIN h |-> IF h[i] = Str("gameId") THEN Str("game_id") ELSE h[i]],
          [i \in DOMAIN h |-> IF h[i] = IdColumn(pl) THEN <<" ">> \o h[i] ELSE h[i]] }

\* now(UTC-5) - LOOKBACK_HOURS at the start of a run.
Cutoffs == {DT(2024, 11, 15, 0), DT(2025, 12, 25, 19)}

----------------------------------------------------------------------------
(* State *)

VARIABLES
    pipeline,       \* "team" or "player": which importer the behaviour runs
    csv_rows,       \* the data rows of the source CSV
    sheet,          \* the destination spreadsheet: tab title -> rows
    runs,           \* runs started so far
    overlapped,     \* a run has started while another was in progress
    written,        \* the tabs an append has reached
    pc,             \* per run: the position in main
    fieldnames,     \* per run: reader.fieldnames
    cutoff,         \* per run: cutoff
    recent_rows,    \* per run: recent_rows
    by_tab,         \* per run: by_tab, in insertion order
    tab_idx,        \* per run: the index in by_tab of the tab in hand
    existing_tabs,  \* per run: ensure_tab_exists' existing_tabs
    result_a,       \* per run: the team pipeline's rows_a
    keys_read,      \* per run: existing_keys as get_existing_keys returned it
    new_rows,       \* per run: new_rows
    appended,       \* per run: the [tab, row] appended so far
    calls,          \* per run: the spreadsheet calls issued so far
    read_failed     \* per run: the tabs whose key read failed

vars ==
    <<pipeline, csv_rows, sheet, runs, overlapped, written, pc,
      fieldnames, cutoff, recent_rows, by_tab, tab_idx, existing_tabs,
      result_a, keys_read, new_rows, appended, calls, read_failed>>

Terminated == {"idle", "done", "failed", "schema_error"}

Active(p) == pc[p] \notin Terminated

HeaderRow == EXPECTED_HEADERS(pipeline)

CurTab(p) == by_tab[p][tab_idx[p]].tab

Candidates(p) == by_tab[p][tab_idx[p]].rows

ReadPc == IF pipeline = "team" THEN "read_a" ELSE "read_cd"

Init ==
    /\ pipeline \in {"team", "player"}
    /\ csv_rows \in SeqsUpTo(Catalog(pipeline), MaxRows)
    /\ sheet = << >>
    /\ runs = 0
    /\ overlapped = FALSE
    /\ written = {}
    /\ pc = [p \in Procs |-> "idle"]
    /\ fieldnames = [p \in Procs |-> << >>]
    /\ cutoff = [p \in Procs |-> NoDate]
    /\ recent_rows = [p \in Procs |-> << >>]
    /\ by_tab = [p \in Procs |-> << >>]
    /\ tab_idx = [p \in Procs |-> 1]
    /\ existing_tabs = [p \in Procs |-> {}]
    /\ result_a = [p \in Procs |-> << >>]
    /\ keys_read = [p \in Procs |-> {}]
    /\ new_rows = [p \in Procs |-> << >>]
    /\ appended = [p \in Procs |-> << >>]
    /\ calls = [p \in Procs |-> << >>]
    /\ read_failed = [p \in Procs |-> {}]

----------------------------------------------------------------------------
(* main, one action per blocking call.  The code that runs between two     *)
(* calls belongs to the action of the call before it.                      *)

Call(op, tab) == [op |-> op, tab |-> tab]

\* The locals of a run that has not yet read the file.
FreshRun(p) ==
    /\ runs' = runs + 1
    /\ overlapped' = (overlapped \/ \E q \in Procs \ {p} : Active(q))
    /\ tab_idx' = [tab_idx EXCEPT ![p] = 1]
    /\ existing_tabs' = [existing_tabs EXCEPT ![p] = {}]
    /\ result_a' = [result_a EXCEPT ![p] = << >>]
    /\ keys_read' = [keys_read EXCEPT ![p] = {}]
    /\ new_rows' = [new_rows EXCEPT ![p] = << >>]
    /\ appended' = [appended EXCEPT ![p] = << >>]
    /\ calls' = [calls EXCEPT ![p] = << >>]
    /\ read_failed' = [read_failed EXCEPT ![p] = {}]

\* kagglehub.dataset_download raises: the run ends before it reads anything.
FetchFail(p) ==
    /\ pc[p] \in Terminated
    /\ runs < MaxRuns
    /\ FreshRun(p)
    /\ pc' = [pc EXCEPT ![p] = "failed"]
    /\ fieldnames' = [fieldnames EXCEPT ![p] = << >>]
    /\ cutoff' = [cutoff EXCEPT ![p] = NoDate]
    /\ recent_rows' = [recent_rows EXCEPT ![p] = << >>]
    /\ by_tab' = [by_tab EXCEPT ![p] = << >>]
    /\ UNCHANGED <<pipeline, csv_rows, sheet, written>>

\* recent_rows of the file under the header fn and the cutoff c.
ReadCsv(fn, c) ==
    IF pipeline = "team"
    THEN team_recent_rows(fn, csv_rows, c, 1)
    ELSE player_recent_rows(fn, csv_rows, c, 1)

\* by_tab: the team pipeline has the one tab TARGET_TAB for all its rows.
Route(recent) ==
    IF pipeline = "team"
    THEN <<[tab |-> TARGET_TAB, rows |-> recent]>>
    ELSE bucket_rows(recent, 1, << >>)

\* main from the download to the first spreadsheet call.
Start(p) ==
    /\ pc[p] \in Terminated
    /\ runs < MaxRuns
    /\ FreshRun(p)
    /\ \E fn \in HeaderVariants(pipeline), c \in Cutoffs :
         LET bad    == missing(pipeline, fn) # {}
             recent == IF bad THEN << >> ELSE ReadCsv(fn, c)
             routed == IF recent = << >> THEN << >> ELSE Route(recent)
         IN  /\ fieldnames' = [fieldnames EXCEPT ![p] = fn]
             /\ cutoff' = [cutoff EXCEPT ![p] = c]
             /\ recent_rows' = [recent_rows EXCEPT ![p] = recent]
             /\ by_tab' = [by_tab EXCEPT ![p] = routed]
             /\ pc' = [pc EXCEPT ![p] =
                         IF bad THEN "schema_error"
                         ELSE IF routed = << >> THEN "done"
                         ELSE "list_tabs"]
    /\ UNCHANGED <<pipeline, csv_rows, sheet, written>>

\* ensure_tab_exists: spreadsheets().get(fields="sheets.properties.title")
ListTabs(p) ==
    /\ pc[p] = "list_tabs"
    /\ existing_tabs' = [existing_tabs EXCEPT ![p] = DOMAIN sheet]
    /\ calls' = [calls EXCEPT ![p] = Append(@, Call("get", CurTab(p)))]
    /\ pc' = [pc EXCEPT ![p] =
                IF needs_create(DOMAIN sheet, CurTab(p))
                THEN "add_sheet" ELSE ReadPc]
    /\ UNCHANGED <<pipeline, csv_rows, sheet, runs, overlapped,
                   written, fieldnames, cutoff, recent_rows, by_tab, tab_idx,
                   result_a, keys_read, new_rows, appended, read_failed>>

\* ensure_tab_exists: batchUpdate(addSheet).  The API refuses a title that
\* is already a tab's, and the error ends the run.
AddSheet(p) ==
    /\ pc[p] = "add_sheet"
    /\ calls' = [calls EXCEPT ![p] = Append(@, Call("addSheet", CurTab(p)))]
    /\ IF CurTab(p) \in DOMAIN sheet
       THEN /\ pc' = [pc EXCEPT ![p] = "failed"]
            /\ sheet' = sheet
       ELSE /\ pc' = [pc EXCEPT ![p] = "write_header"]
            /\ sheet' = [t \in DOMAIN sheet \cup {CurTab(p)} |->
                           IF t = CurTab(p) THEN << >> ELSE sheet[t]]
    /\ UNCHANGED <<pipeline, csv_rows, runs, overlapped, written,
                   fieldnames, cutoff, recent_rows, by_tab, tab_idx,
                   existing_tabs, result_a, keys_read, new_rows, appended,
                   read_failed>>

\* ensure_tab_exists: values().update(range=A1, values=[EXPECTED_HEADERS])
WriteHeader(p) ==
    /\ pc[p] = "write_header"
    /\ calls' = [calls EXCEPT ![p] = Append(@, Call("update", CurTab(p)))]
    /\ sheet' = [sheet EXCEPT ![CurTab(p)] = write_row1(@, HeaderRow)]
    /\ pc' = [pc EXCEPT ![p] = ReadPc]
    /\ UNCHANGED <<pipeline, csv_rows, runs, overlapped, written,
                   fieldnames, cutoff, recent_rows, by_tab, tab_idx,
                   existing_tabs, result_a, keys_read, new_rows, appended,
                   read_failed>>

\* main after get_existing_keys returned keys: the dedup loop.
AfterKeys(p, keys) ==
    /\ keys_read' = [keys_read EXCEPT ![p] = keys]
    /\ new_rows' = [new_rows EXCEPT ![p] = dedup(pipeline, Candidates(p), 1, keys)]
    /\ pc' = [pc EXCEPT ![p] = "append"]

\* player get_existing_keys: values().get(range=C:D); a tab that is not
\* there raises, and the except clause returns set().
ReadCD(p) ==
    /\ pc[p] = "read_cd"
    /\ calls' = [calls EXCEPT ![p] = Append(@, Call("values.get", CurTab(p)))]
    /\ AfterKeys(p, IF CurTab(p) \in DOMAIN sheet
                    THEN player_existing_keys(values_get(sheet[CurTab(p)], <<3, 4>>))
                    ELSE {})
    /\ UNCHANGED <<pipeline, csv_rows, sheet, runs, overlapped,
                   written, fieldnames, cutoff, recent_rows, by_tab, tab_idx,
                   existing_tabs, result_a, appended, read_failed>>

\* team get_existing_keys: values().get(range=A:A)
ReadA(p) ==
    /\ pc[p] = "read_a"
    /\ calls' = [calls EXCEPT ![p] = Append(@, Call("values.get", CurTab(p)))]
    /\ IF CurTab(p) \in DOMAIN sheet
       THEN /\ result_a' = [result_a EXCEPT ![p] = values_get(sheet[CurTab(p)], <<1>>)]
            /\ pc' = [pc EXCEPT ![p] = "read_e"]
            /\ UNCHANGED <<keys_read, new_rows>>
       ELSE /\ AfterKeys(p, {})
            /\ UNCHANGED result_a
    /\ UNCHANGED <<pipeline, csv_rows, sheet, runs, overlapped,
                   written, fieldnames, cutoff, recent_rows, by_tab, tab_idx,
                   existing_tabs, appended, read_failed>>

\* team get_existing_keys: values().get(range=E:E), then the key loop.
ReadE(p) ==
    /\ pc[p] = "read_e"
    /\ calls' = [calls EXCEPT ![p] = Append(@, Call("values.get", CurTab(p)))]
    /\ AfterKeys(p, IF CurTab(p) \in DOMAIN sheet
                    THEN team_existing_keys(result_a[p],
                                            values_get(sheet[CurTab(p)], <<5>>))
                    ELSE {})
    /\ UNCHANGED <<pipeline, csv_rows, sheet, runs, overlapped,
                   written, fieldnames, cutoff, recent_rows, by_tab, tab_idx,
                   existing_tabs, result_a, appended, read_failed>>

\* get_existing_keys: a values().get raises for an outside reason (auth,
\* network, quota); the except clause returns set() all the same.
ReadFail(p) ==
    /\ pc[p] \in {"read_cd", "read_a", "read_e"}
    /\ calls' = [calls EXCEPT ![p] = Append(@, Call("values.get", CurTab(p)))]
    /\ read_failed' = [read_failed EXCEPT ![p] = @ \cup {CurTab(p)}]
    /\ AfterKeys(p, {})
    /\ UNCHANGED <<pipeline, csv_rows, sheet, runs, overlapped, written,
                   fieldnames, cutoff, recent_rows, by_tab, tab_idx,
                   existing_tabs, result_a, appended>>

\* The position after the tab in hand: the next tab of by_tab, or the end.
NextTab(p) ==
    IF tab_idx[p] < Len(by_tab[p])
    THEN /\ tab_idx' = [tab_idx EXCEPT ![p] = @ + 1]
         /\ pc' = [pc EXCEPT ![p] = "list_tabs"]
    ELSE /\ tab_idx' = tab_idx
         /\ pc' = [pc EXCEPT ![p] = "done"]

\* values().append(range=A:.., INSERT_ROWS): the rows go below the last row
\* of the tab.
append_values(tabRows, rows) == tabRows \o rows

\* main: if new_rows: append_rows(...); then the next tab.
AppendRows(p) ==
    /\ pc[p] = "append"
    /\ IF new_rows[p] = << >>
       THEN /\ NextTab(p)
            /\ UNCHANGED <<sheet, written, appended, calls>>
       ELSE /\ calls' = [calls EXCEPT ![p] = Append(@, Call("append", CurTab(p)))]
            /\ IF CurTab(p) \in DOMAIN sheet
               THEN /\ sheet' = [sheet EXCEPT ![CurTab(p)] =
                                    append_values(@, new_rows[p])]
                    /\ written' = written \cup {CurTab(p)}
                    /\ appended' = [appended EXCEPT ![p] =
                          @ \o [i \in DOMAIN new_rows[p] |->
                                  [tab |-> CurTab(p), row |-> new_rows[p][i]]]]
                    /\ NextTab(p)
               ELSE /\ pc' = [pc EXCEPT ![p] = "failed"]
                    /\ UNCHANGED <<sheet, written, appended, tab_idx>>
    /\ UNCHANGED <<pipeline, csv_rows, runs, overlapped, fieldnames,
                   cutoff, recent_rows, by_tab, existing_tabs, result_a,
                   keys_read, new_rows, read_failed>>

\* The call a run is about to issue.
PendingCall(p) ==
    CASE pc[p] = "list_tabs" -> "get"
      [] pc[p] = "add_sheet" -> "addSheet"
      [] pc[p] = "write_header" -> "update"
      [] OTHER -> "append"

\* A call outside get_existing_keys raises for an outside reason: nothing
\* catches it and the run ends.
ApiFail(p) ==
    /\ \/ pc[p] \in {"list_tabs", "add_sheet", "write_header"}
       \/ pc[p] = "append" /\ new_rows[p] # << >>
    /\ calls' = [calls EXCEPT ![p] = Append(@, Call(PendingCall(p), CurTab(p)))]
    /\ pc' = [pc EXCEPT ![p] = "failed"]
    /\ UNCHANGED <<pipeline, csv_rows, sheet, runs, overlapped, written,
                   fieldnames, cutoff, recent_rows, by_tab, tab_idx,
                   existing_tabs, result_a, keys_read, new_rows, appended,
                   read_failed>>

Step(p) ==
    \/ FetchFail(p)
    \/ Start(p)
    \/ ListTabs(p)
    \/ AddSheet(p)
    \/ WriteHeader(p)
    \/ ReadCD(p)
    \/ ReadA(p)
    \/ ReadE(p)
    \/ ReadFail(p)
    \/ AppendRows(p)
    \/ ApiFail(p)

\* The scheduler's runs, one after the other.
Next == Step(1)

Spec == Init /\ [][Next]_vars

\* Runs that may overlap: a second invocation starts whenever it likes.
NextOverlap == \E p \in Procs : Step(p)

SpecOverlap == Init /\ [][NextOverlap]_vars

----------------------------------------------------------------------------
(* Vocabulary of the properties *)

\* The elements of s at the indices of I, from index i on, in order.
RECURSIVE PickIdx(_, _, _)
PickIdx(s, I, i) ==
    IF i > Len(s) THEN << >>
    ELSE (IF i \in I THEN <<s[i]>> ELSE << >>) \o PickIdx(s, I, i + 1)

\* The column of a row that holds the date, the id and the game id.
DateCol == IF pipeline = "team" THEN 2 ELSE 5
IdCol == IF pipeline = "team" THEN 5 ELSE 3
GameCol == IF pipeline = "team" THEN 1 ELSE 4

\* Hours on one time line, for datetimes at the same offset.
Ord(dt) == ((dt.year * 12 + dt.month) * 31 + dt.day) * 24 + dt.hour

\* A run that has read the source file's header.
HasRead(p) == pc[p] # "idle" /\ cutoff[p] # NoDate

\* A string with at least one character and no whitespace.
Clean(s) == s # EmptyStr /\ \A i \in DOMAIN s : ~IsSpace(s[i])

AllowedTabs ==
    { <<"players-", "2022">>, <<"players-", "2023">>, <<"players-", "2024">>,
      <<"players-", "2025">>, <<"players-", "2026">> }

\* players-<b> for a bucket b, b as the claim defines it.
BucketOf(dt) == IF dt.month >= 7 THEN dt.year + 1 ELSE dt.year

BucketTab ==
    (2022 :> <<"players-", "2022">>) @@ (2023 :> <<"players-", "2023">>) @@
    (2024 :> <<"players-", "2024">>) @@ (2025 :> <<"players-", "2025">>) @@
    (2026 :> <<"players-", "2026">>)

----------------------------------------------------------------------------
(* C1 *)

\* C1: when the pipeline has run to completion and then run again with the
\* same source data and the same cutoff, nothing else having touched the
\* spreadsheet, the second run appends no row.  The two runs are the runs
\* of the two slots, neither overlapping the other; whichever came second
\* must have appended nothing.
C1_SecondRunAppendsNothing ==
    ( /\ runs = 2
      /\ ~overlapped
      /\ pc[1] = "done" /\ pc[2] = "done"
      /\ cutoff[1] = cutoff[2]
      /\ fieldnames[1] = fieldnames[2]
      /\ read_failed[1] = {} /\ read_failed[2] = {} )
    => (appended[1] = << >> \/ appended[2] = << >>)

----------------------------------------------------------------------------
(* C2 *)

\* The composite key of a candidate row, from its own (stripped) fields.
ClaimKey(row) ==
    KeyStr(strip(get(row, IdColumn(pipeline))), strip(get(row, Str("gameId"))))

\* The indices of the candidates the rule accepts, given the keys read.
Accepted(cands, keys) ==
    {i \in DOMAIN cands :
        /\ ClaimKey(cands[i]) \notin keys
        /\ \A j \in 1..(i - 1) : ClaimKey(cands[j]) # ClaimKey(cands[i])}

ExampleRow(gid) ==
    DictRow(TEAM_EXPECTED_HEADERS, TeamRow(Str("100"), Str(gid), D_2025_08_01))

\* C2: of a tab's candidates, in source order, exactly those are accepted
\* whose key is not among the keys read from the tab and is not the key of
\* an earlier candidate of the batch; with the keys {100|1, 100|2} read and
\* the candidates 100|1, 100|2, 100|3, exactly the row 100|3 is accepted.
C2_DedupAcceptance ==
    /\ \A p \in Procs :
         pc[p] = "append" =>
           new_rows[p] =
             PickIdx([i \in DOMAIN Candidates(p) |->
                        [j \in DOMAIN HeaderRow |-> get(Candidates(p)[i], HeaderRow[j])]],
                     Accepted(Candidates(p), keys_read[p]), 1)
    /\ dedup("team", <<ExampleRow("1"), ExampleRow("2"), ExampleRow("3")>>, 1,
             {<<"100", "|", "1">>, <<"100", "|", "2">>})
         = <<TeamRow(Str("100"), Str("3"), D_2025_08_01)>>

\* A batch of two candidates: the first is refused for a key read from the
\* tab, the second is accepted.
C2_Witness ==
    \E p \in Procs :
        /\ pc[p] = "append"
        /\ Len(Candidates(p)) = 2
        /\ ClaimKey(Candidates(p)[1]) \in keys_read[p]
        /\ Len(new_rows[p]) = 1

\* A batch of two candidates with one key: only the first is accepted.
C2_IntraBatchReached ==
    \E p \in Procs :
        /\ pc[p] = "append"
        /\ Len(Candidates(p)) = 2
        /\ ClaimKey(Candidates(p)[1]) = ClaimKey(Candidates(p)[2])
        /\ keys_read[p] = {}
        /\ Len(new_rows[p]) = 1

----------------------------------------------------------------------------
(* C3 *)

\* A source row the filter is to retain under the cutoff c.
Retained(vals, c) ==
    LET dt == parse_date(vals[DateCol])
    IN  /\ dt # NoDate
        /\ Ord(dt) >= Ord(c)
        /\ pipeline = "team" =>
             /\ dt.year * 12 + dt.month >= 2025 * 12 + 7
             /\ dt.year * 12 + dt.month <= 2026 * 12 + 6

\* C3: recent_rows is, in source order, exactly the rows whose date parses,
\* is not earlier than the cutoff and, in the team pipeline, lies in July
\* 2025 .. June 2026; and every row a run has appended has a date that
\* parses and is not earlier than that run's cutoff.
C3_RowFilterRetention ==
    \A p \in Procs :
        (HasRead(p) /\ pc[p] # "schema_error") =>
            /\ recent_rows[p] =
                 PickIdx([i \in DOMAIN csv_rows |-> DictRow(fieldnames[p], csv_rows[i])],
                         {i \in DOMAIN csv_rows : Retained(csv_rows[i], cutoff[p])}, 1)
            /\ \A k \in DOMAIN appended[p] :
                 LET dt == parse_date(appended[p][k].row[DateCol])
                 IN  dt # NoDate /\ Ord(dt) >= Ord(cutoff[p])

\* A finished run that kept and appended one row of a file of two and
\* dropped the other for a date earlier than the cutoff.
C3_Witness ==
    \E p \in Procs :
        /\ pc[p] = "done"
        /\ Len(csv_rows) = 2
        /\ Len(recent_rows[p]) = 1
        /\ appended[p] # << >>
        /\ \E i \in DOMAIN csv_rows :
             /\ parse_date(csv_rows[i][DateCol]) # NoDate
             /\ Ord(parse_date(csv_rows[i][DateCol])) < Ord(cutoff[p])

----------------------------------------------------------------------------
(* C4 *)

\* The tab a retained player row belongs to, or << >> for none.
TabFor(row) ==
    LET b == BucketOf(parse_date(row[Str("gameDateTimeEst")]))
    IN  IF b \in DOMAIN BucketTab THEN BucketTab[b] ELSE << >>

\* C4: in the player pipeline every retained row is routed to the one tab
\* players-<b> of its bucket b when b is in 2022..2026 and to no tab
\* otherwise; a row outside is never appended; and no tab but
\* players-2022..players-2026 is ever listed for, created, read or written.
C4_PlayerRouting ==
    pipeline = "player" =>
        /\ DOMAIN sheet \subseteq AllowedTabs
        /\ \A p \in Procs :
             /\ \A k \in DOMAIN calls[p] : calls[p][k].tab \in AllowedTabs
             /\ \A k \in DOMAIN appended[p] :
                  LET b == BucketOf(parse_date(appended[p][k].row[DateCol]))
                  IN  /\ b \in DOMAIN BucketTab
                      /\ appended[p][k].tab = BucketTab[b]
             /\ (HasRead(p) /\ pc[p] # "schema_error") =>
                  /\ \A k \in DOMAIN by_tab[p] :
                       /\ by_tab[p][k].tab \in AllowedTabs
                       /\ by_tab[p][k].rows # << >>
                       /\ by_tab[p][k].rows =
                            PickIdx(recent_rows[p],
                                    {i \in DOMAIN recent_rows[p] :
                                        TabFor(recent_rows[p][i]) = by_tab[p][k].tab}, 1)
                       /\ \A m \in DOMAIN by_tab[p] :
                            by_tab[p][m].tab = by_tab[p][k].tab => m = k
                  /\ \A i \in DOMAIN recent_rows[p] :
                       TabFor(recent_rows[p][i]) # << >> =>
                         \E k \in DOMAIN by_tab[p] :
                            by_tab[p][k].tab = TabFor(recent_rows[p][i])

\* A finished player run that retained two rows, appended the one and
\* dropped the other, whose bucket is 2027.
C4_Witness ==
    /\ pipeline = "player"
    /\ \E p \in Procs :
         /\ pc[p] = "done"
         /\ Len(recent_rows[p]) = 2
         /\ Len(appended[p]) = 1
         /\ \E i \in DOMAIN recent_rows[p] :
              BucketOf(parse_date(recent_rows[p][i][Str("gameDateTimeEst")])) = 2027

----------------------------------------------------------------------------
(* C5 *)

\* An expected column name that no header name of the file, stripped, is.
ColumnAbsent(fn) ==
    \E i \in DOMAIN HeaderRow : \A j \in DOMAIN fn : strip(fn[j]) # HeaderRow[i]

\* C5: a run whose source header lacks an expected column is in the schema
\* error from the moment it has read the header: it has retained and routed
\* no row and issued no spreadsheet call, a run past the validation lacks no
\* column, and the step into the schema error leaves the spreadsheet as it
\* was.
C5_SchemaFailFast ==
    /\ [](\A p \in Procs :
            /\ (HasRead(p) /\ ColumnAbsent(fieldnames[p])) =>
                  /\ pc[p] = "schema_error"
                  /\ recent_rows[p] = << >>
                  /\ by_tab[p] = << >>
                  /\ calls[p] = << >>
                  /\ appended[p] = << >>
            /\ pc[p] = "schema_error" => ColumnAbsent(fieldnames[p]))
    /\ [][\A p \in Procs :
            (pc'[p] = "schema_error" /\ runs' # runs) => sheet' = sheet]_vars

\* A run that ended in the schema error with a tab already holding rows.
C5_Witness ==
    \E p \in Procs : pc[p] = "schema_error" /\ written # {}

----------------------------------------------------------------------------
(* C6 *)

Last(s) == s[Len(s)]

\* The run p issues the call op in this step.
Issues(p, op) ==
    /\ Len(calls'[p]) = Len(calls[p]) + 1
    /\ Last(calls'[p]).op = op

\* C6: a create or a header write is issued only for a title absent from
\* the titles listed; the header write makes the header the only row of the
\* new tab; a listing that holds the title is followed by the key read, with
\* every cell as it was; the first row of a tab that has one never changes,
\* and no tab holds the header row twice.
C6_HeaderOnce ==
    /\ [][\A p \in Procs :
            /\ (Issues(p, "addSheet") \/ Issues(p, "update")) =>
                  Last(calls'[p]).tab \notin existing_tabs[p]
            /\ (pc[p] = "write_header" /\ pc'[p] # "failed") =>
                  sheet'[CurTab(p)] = <<HeaderRow>>
            /\ (pc[p] = "list_tabs" /\ pc'[p] # "failed" /\ CurTab(p) \in DOMAIN sheet) =>
                  /\ pc'[p] \in {"read_a", "read_cd"}
                  /\ sheet' = sheet]_vars
    /\ [][\A t \in DOMAIN sheet :
            sheet[t] # << >> => sheet'[t][1] = sheet[t][1]]_vars
    /\ [](\A t \in DOMAIN sheet :
            Cardinality({i \in DOMAIN sheet[t] : sheet[t][i] = HeaderRow}) <= 1)

\* A second run at the key read of a tab that its listing found, the tab
\* holding its header and data.
C6_Witness ==
    \E p \in Procs :
        /\ pc[p] \in {"read_a", "read_cd"}
        /\ CurTab(p) \in existing_tabs[p]
        /\ Len(sheet[CurTab(p)]) >= 2
        /\ sheet[CurTab(p)][1] = HeaderRow

----------------------------------------------------------------------------
(* C7 *)

\* C7: a run whose read of a tab's key columns failed for an outside reason
\* ends as failed and appends no row to that tab.
C7_KeyReadFailureIsFatal ==
    \A p \in Procs : \A t \in read_failed[p] :
        /\ pc[p] \in Terminated => pc[p] = "failed"
        /\ \A k \in DOMAIN appended[p] : appended[p][k].tab # t

----------------------------------------------------------------------------
(* C8 *)

\* The keys of the rows below the first whose two key cells are non-empty.
KeysOfTab(rows) ==
    {KeyStr(rows[i][IdCol], rows[i][GameCol]) :
        i \in {k \in 2..Len(rows) :
                  rows[k][IdCol] # EmptyStr /\ rows[k][GameCol] # EmptyStr}}

\* C8: the key set get_existing_keys returns for a tab it could read is the
\* set of the keys id|gameId of the rows below the first whose two key cells
\* are both non-empty.
C8_ExistingKeysOfNonEmptyParts ==
    \A p \in Procs :
        (pc[p] = "append" /\ ~overlapped /\ CurTab(p) \notin read_failed[p]) =>
            keys_read[p] = KeysOfTab(sheet[CurTab(p)])

----------------------------------------------------------------------------
(* C9 *)

\* Two rows of one tab with the same key, its parts non-empty and free of
\* whitespace.
DoubleAppend ==
    \E t \in DOMAIN sheet : \E i, j \in DOMAIN sheet[t] :
        /\ i < j
        /\ sheet[t][i][IdCol] = sheet[t][j][IdCol]
        /\ sheet[t][i][GameCol] = sheet[t][j][GameCol]
        /\ Clean(sheet[t][i][IdCol])
        /\ Clean(sheet[t][i][GameCol])

\* C9: as long as no run has started while another was in progress, no key
\* with non-empty, whitespace-free parts is in two rows of a tab.
C9_NoDoubleAppendWithoutOverlap == overlapped \/ ~DoubleAppend

\* Two overlapping runs, both complete and neither with a failed call,
\* after which one key is in two rows of a tab.
C9_RaceDoubleAppend ==
    /\ overlapped
    /\ runs = 2
    /\ pc[1] = "done" /\ pc[2] = "done"
    /\ read_failed[1] = {} /\ read_failed[2] = {}
    /\ DoubleAppend

----------------------------------------------------------------------------
(* C10 *)

\* C10: every tab an append has reached has the expected header as its
\* first row.
C10_HeaderBeforeData ==
    \A t \in written : sheet[t][1] = HeaderRow

====
